---- MODULE Spec2Model ----
(***************************************************************************)
(* Model of @fixmyhome/test-runner (packages/test-runner/src/index.ts):    *)
(* the host registry (tests, currentDescribe, registeredApp), describe/it, *)
(* runTests, runTestsInVM with its sandbox-local registry, and waitFor.    *)
(*                                                                         *)
(* Async functions are split at their suspension points (await); the       *)
(* position of each invocation is its pc.  Under Spec the caller awaits    *)
(* each call before making the next one.  A case body is an opaque         *)
(* callable: what it does (return, throw, return an awaitable) is chosen   *)
(* when it is invoked.                                                     *)
(***************************************************************************)
EXTENDS Integers, Sequences, FiniteSets, TLC

VARIABLES tests, currentDescribe, registeredApp, run, vm, now, wf, val, ac,
          ex, vms, runs

vars == <<tests, currentDescribe, registeredApp, run, vm, now, wf, val, ac,
          ex, vms, runs>>
hostVars == <<tests, currentDescribe, registeredApp>>
wfVars == <<now, wf>>
\* validateProblemTests (test-utils) and act
utilVars == <<val, ac, ex, vms, runs>>
\* expect, and overlapping invocations of runTestsInVM and of runTests
auxVars == <<ex, vms, runs>>
runnerVars == <<hostVars, run, vm, wfVars>>

(***************************************************************************)
(* Bounds                                                                  *)
(***************************************************************************)
\* cases alive at once (host registry plus sandbox-local registry)
MaxTests == 2
\* statements in the body passed to describe
MaxBody == 2
\* clock values of the waitFor model are 0..MaxTime
MaxTime == 4
\* waitFor is called with timeout in 0..MaxTimeout, interval in 0..MaxInterval
MaxTimeout == 2
MaxInterval == 1
\* callback invocations of one waitFor call that are followed
MaxAttempts == 3

(***************************************************************************)
(* JavaScript values that matter to the runner: what a body can throw or   *)
(* reject with, and what reading .message off it gives.                    *)
(***************************************************************************)
Undefined == [t |-> "undefined", v |-> ""]
Null == [t |-> "null", v |-> ""]
Str(s) == [t |-> "string", v |-> s]
\* an Error object whose message is m
Err(m) == [t |-> "Error", v |-> m]

\* values a body / a script / a callback may throw or reject with
Thrown == {Err("boom"), Str("oops"), Null, Undefined}

\* e.message raises a TypeError when e is null or undefined
CanReadProp(e) == e.t \notin {"null", "undefined"}

\* e.message: the message of an Error, undefined for a primitive string
MessageOf(e) == IF e.t = "Error" THEN Str(e.v) ELSE Undefined

\* the TypeError raised by reading a property of null / undefined
PropTypeError == Err("Cannot read properties of null")

\* JavaScript truthiness of a value
Truthy(e) ==
  CASE e.t = "Error" -> TRUE
    [] e.t = "string" -> e.v # ""
    [] OTHER -> FALSE

\* `${x}` inside a template literal
ToText(e) ==
  CASE e.t = "string" -> e.v
    [] e.t = "undefined" -> "undefined"
    [] e.t = "null" -> "null"
    [] OTHER -> "Error: " \o e.v

(***************************************************************************)
(* Registration: describe / it on the host, and their sandbox-bound twins  *)
(***************************************************************************)
Names == {"a", "b"}
\* names of the cases registered inside a describe body
BodyNames == {"a"}
\* describe is called with "G"; a describe nested in its body with "H"
Groups == {"G"}

\* host it(): name of the pushed case (index.ts line 31)
TestName(group, name) ==
  IF group # "" THEN group \o " > " \o name ELSE name

\* sandbox.it: name of the pushed case (index.ts lines 283-285)
SandboxTestName(group, name) ==
  IF group # "" THEN group \o " > " \o name ELSE name

\* a registry entry; fn is the identity of the callable passed to it()
Test(name, fn) == [name |-> name, fn |-> fn]

\* statements a describe body or a bundled source is made of
ItStmt(n) == [op |-> "it", name |-> n, body |-> <<>>]
ThrowStmt == [op |-> "throw", name |-> "", body |-> <<>>]
DescribeStmt(g, b) == [op |-> "describe", name |-> g, body |-> b]

SeqsUpTo(S, n) == UNION {[1..k -> S] : k \in 0..n}

\* bodies of a nested describe: it() calls only
InnerBodies == SeqsUpTo({ItStmt(n) : n \in BodyNames}, 1)

BodyStmts ==
  {ItStmt(n) : n \in BodyNames} \cup {ThrowStmt}
    \cup {DescribeStmt("H", b) : b \in InnerBodies}

\* the callbacks passed to describe
Bodies == SeqsUpTo(BodyStmts, MaxBody)

\* registry state threaded through a synchronous stretch of registrations
RegState(ts, d, threw) == [tests |-> ts, describe |-> d, threw |-> threw]

(* it(name, fn): push {name, fn} with the group prefix, if any *)
ItPush(st, n, sandboxed) ==
  [st EXCEPT !.tests =
     Append(@, Test(IF sandboxed THEN SandboxTestName(st.describe, n)
                                 ELSE TestName(st.describe, n), n))]

RECURSIVE ExecBody(_, _, _)
\* a describe that puts back the group it found when it was called
DescribeCallRestoring(st, g, body, sandboxed) ==
  LET entered == [st EXCEPT !.describe = g]
      after == ExecBody(entered, body, sandboxed)
  IN IF after.threw THEN after ELSE [after EXCEPT !.describe = st.describe]

(* describe(name, fn): set the group, call fn, reset the group.  A throw   *)
(* inside fn leaves the function at once: the reset is skipped.            *)
DescribeCall(st, g, body, sandboxed) ==
  LET entered == [st EXCEPT !.describe = g]
      after == ExecBody(entered, body, sandboxed)
  IN IF after.threw THEN after ELSE [after EXCEPT !.describe = ""]

(* the statements of a callback, in order, up to the first throw *)
ExecBody(st, body, sandboxed) ==
  IF body = <<>> \/ st.threw THEN st
  ELSE LET s == Head(body)
           st1 == CASE s.op = "it" -> ItPush(st, s.name, sandboxed)
                    [] s.op = "throw" -> [st EXCEPT !.threw = TRUE]
                    [] OTHER -> DescribeCall(st, s.name, s.body, sandboxed)
       IN ExecBody(st1, Tail(body), sandboxed)

(***************************************************************************)
(* Reports                                                                 *)
(***************************************************************************)
PassResult(name) == [name |-> name, passed |-> TRUE, error |-> Undefined]
FailResult(name, error) == [name |-> name, passed |-> FALSE, error |-> error]

\* results.every((r) => r.passed)
AllPassed(results) == \A i \in 1..Len(results) : results[i].passed

Report(results) == [passed |-> AllPassed(results), results |-> results]

NoReport == [passed |-> TRUE, results |-> <<>>]

(***************************************************************************)
(* runTests(): one invocation.  snapshot is the registry as the drain      *)
(* found it when it began.  pc is "idle" (not called, or the caller        *)
(* has taken the outcome), "loop" (running, at the head of the for-of),    *)
(* "await" (suspended in `await test.fn()`), "returned" or "raised".       *)
(* idx is the array iterator's index.  snapshot, calls, cleared, afterRun  *)
(* and quiet record what happened, for the properties; test is the        *)
(* loop's `test` while the run is suspended next to other runs.            *)
(***************************************************************************)
IdleRun(quiet) ==
  [pc |-> "idle", idx |-> 0, results |-> <<>>, awaiting |-> "none",
   report |-> NoReport, error |-> Undefined,
   snapshot |-> <<>>, calls |-> <<>>, cleared |-> 0,
   afterRun |-> FALSE, quiet |-> quiet, test |-> Test("", "")]

IdleVm(prevRegistered) ==
  [pc |-> "idle", sandbox |-> [tests |-> <<>>, describe |-> ""],
   idx |-> 0, results |-> <<>>, awaiting |-> "none",
   report |-> NoReport, error |-> Undefined,
   executed |-> FALSE, execError |-> Undefined,
   own |-> <<>>, calls |-> <<>>, unawaited |-> 0, snapshot |-> <<>>,
   overlap |-> FALSE,
   prevRegistered |-> prevRegistered]

\* two invocations that may overlap
Invocations == {1, 2}

(* overlapping runTests() invocations: each one's position, whether each   *)
(* entry of the registry has been invoked by some run, and whether (1 / 0) *)
(* an entry was discarded that no run had invoked                          *)
IdleRuns ==
  [r |-> [i \in Invocations |-> IdleRun(FALSE)], invoked |-> <<>>, lost |-> 0]

\* the caller awaits each call before it makes the next one
Quiescent == run.pc = "idle" /\ vm.pc = "idle"

\* a body invocation as the properties see it
Call(fn, ok) == [fn |-> fn, ok |-> ok]

(* catch (e) { results.push({name, passed: false, error: e.message}) }:    *)
(* reading e.message raises inside the handler when e is null/undefined,   *)
(* and that TypeError leaves the async function (the call rejects).        *)
CatchPush(r, name, fn, e) ==
  IF CanReadProp(e)
  THEN [r EXCEPT !.results = Append(@, FailResult(name, MessageOf(e))),
                 !.calls = Append(@, Call(fn, FALSE)),
                 !.idx = @ + 1, !.pc = "loop", !.awaiting = "none"]
  ELSE [r EXCEPT !.calls = Append(@, Call(fn, FALSE)),
                 !.idx = @ + 1, !.pc = "raised", !.awaiting = "none",
                 !.error = PropTypeError]

(* results.push({name, passed: true}) *)
PassPush(r, name, fn, ok) ==
  [r EXCEPT !.results = Append(@, PassResult(name)),
            !.calls = Append(@, Call(fn, ok)),
            !.idx = @ + 1, !.pc = "loop", !.awaiting = "none"]

\* what a called body hands back when it does not throw
Returned == {"void", "promise", "thenable"}

\* `x instanceof Promise`: a host Promise, not any other thenable
InstanceOfPromise(k) == k = "promise"

\* a raised run has finished all the same
Finished(r) == r.pc \in {"returned", "raised"}

(* ---- host registration ---- *)

It(n) ==
  /\ Quiescent
  /\ Len(tests) < MaxTests
  /\ tests' = ItPush(RegState(tests, currentDescribe, FALSE), n, FALSE).tests
  /\ run' = [run EXCEPT !.quiet = FALSE]
  /\ UNCHANGED <<currentDescribe, registeredApp, vm, wfVars, utilVars>>

Describe(g, body) ==
  LET st == DescribeCall(RegState(tests, currentDescribe, FALSE), g, body, FALSE)
  IN /\ Quiescent
     /\ Len(st.tests) <= MaxTests
     /\ tests' = st.tests
     /\ currentDescribe' = st.describe
     /\ run' = [run EXCEPT !.quiet = (@ /\ st.tests = tests)]
     /\ UNCHANGED <<registeredApp, vm, wfVars, utilVars>>

RegisterApp ==
  /\ Quiescent
  /\ registeredApp' = "App"
  /\ UNCHANGED <<tests, currentDescribe, run, vm, wfVars, utilVars>>

(* ---- runTests ---- *)

RunTests ==
  /\ Quiescent
  /\ run' = [IdleRun(run.quiet) EXCEPT !.pc = "loop", !.snapshot = tests,
                                       !.afterRun = run.quiet]
  /\ UNCHANGED <<hostVars, vm, wfVars, utilVars>>

\* the iterator has an element: test.fn() throws e synchronously
RunInvokeThrow(e) ==
  /\ run.pc = "loop"
  /\ run.idx < Len(tests)
  /\ LET test == tests[run.idx + 1]
     IN run' = CatchPush(run, test.name, test.fn, e)
  /\ UNCHANGED <<hostVars, vm, wfVars, utilVars>>

\* test.fn() returns k; `await` suspends the run, whatever k is
RunInvokeAwait(k) ==
  /\ run.pc = "loop"
  /\ run.idx < Len(tests)
  /\ run' = [run EXCEPT !.pc = "await", !.awaiting = k]
  /\ UNCHANGED <<hostVars, vm, wfVars, utilVars>>

\* the awaited value is fulfilled (a non-awaitable is, at once)
RunSettleOk ==
  /\ run.pc = "await"
  /\ LET test == tests[run.idx + 1]
     IN run' = PassPush(run, test.name, test.fn, TRUE)
  /\ UNCHANGED <<hostVars, vm, wfVars, utilVars>>

\* the awaited promise / thenable rejects with e
RunSettleReject(e) ==
  /\ run.pc = "await"
  /\ run.awaiting # "void"
  /\ LET test == tests[run.idx + 1]
     IN run' = CatchPush(run, test.name, test.fn, e)
  /\ UNCHANGED <<hostVars, vm, wfVars, utilVars>>

(* test.fn() calls it(n, ...) and returns: the case is pushed onto the     *)
(* array that the for-of is iterating, and `await` suspends the run        *)
RunBodyRegisters(n) ==
  /\ run.pc = "loop"
  /\ run.idx < Len(tests)
  /\ Len(tests) < MaxTests
  /\ tests' = ItPush(RegState(tests, currentDescribe, FALSE), n, FALSE).tests
  /\ run' = [run EXCEPT !.pc = "await", !.awaiting = "void"]
  /\ UNCHANGED <<currentDescribe, registeredApp, vm, wfVars, utilVars>>

\* the iterator is done: tests.length = 0; return {passed, results}
RunReturn ==
  /\ run.pc = "loop"
  /\ run.idx >= Len(tests)
  /\ tests' = <<>>
  /\ run' = [run EXCEPT !.pc = "returned", !.report = Report(run.results),
                        !.cleared = @ + 1, !.quiet = TRUE]
  /\ UNCHANGED <<currentDescribe, registeredApp, vm, wfVars, utilVars>>

\* the caller takes the report, or catches the rejection
RunCollect ==
  /\ Finished(run)
  /\ run' = IdleRun(IF run.pc = "raised" THEN TRUE ELSE run.quiet)
  /\ UNCHANGED <<hostVars, vm, wfVars, utilVars>>

(***************************************************************************)
(* runTestsInVM(bundledCode): one invocation.  pc is "idle", "exec"        *)
(* (inside vm.runInContext: the source's top-level statements run one      *)
(* after the other, nothing else runs in between), "loop" (draining, at    *)
(* the head of the for-of), "await" (suspended in `await result`),         *)
(* "returned" or "raised".  executed tells that vm.runInContext returned   *)
(* normally, execError is what it raised otherwise.  own lists the names   *)
(* this invocation's source registered, as it registered them.             *)
(***************************************************************************)
\* a sandbox whose registry and group context are the host's
FreshSandboxShared == [tests |-> tests, describe |-> currentDescribe]

\* __testResults: { tests: [], describe: '' } of a new sandbox object
FreshSandbox == [tests |-> <<>>, describe |-> ""]

\* the drain iterating the host registry instead of the sandbox's own
DrainTestsShared == tests

\* the array the drain's for-of iterates
DrainTests == vm.sandbox.tests

\* errors vm.runInContext raises by itself
TimeoutError == Err("Script execution timed out after 30000ms")
ExecErrors == Thrown \cup {TimeoutError}

\* names of the entries of a registry, in order
NamesOf(ts) == [i \in 1..Len(ts) |-> ts[i].name]

\* cases alive, on the host and in the sandbox
Alive(sandboxTests) == Len(tests) + Len(sandboxTests)

RunTestsInVM ==
  /\ Quiescent
  /\ vm' = [IdleVm(vm.prevRegistered) EXCEPT !.pc = "exec",
                                             !.sandbox = FreshSandbox]
  /\ UNCHANGED <<hostVars, run, wfVars, utilVars>>

\* the source calls it(n, fn) at its top level
VmExecIt(n) ==
  /\ vm.pc = "exec"
  /\ Alive(vm.sandbox.tests) < MaxTests
  /\ LET st == ItPush(RegState(vm.sandbox.tests, vm.sandbox.describe, FALSE),
                      n, TRUE)
     IN vm' = [vm EXCEPT !.sandbox.tests = st.tests,
                         !.own = Append(@, st.tests[Len(st.tests)].name)]
  /\ UNCHANGED <<hostVars, run, wfVars, utilVars>>

(* catch (error) of vm.runInContext: the single 'Code execution' result;   *)
(* reading error.message raises when error is null / undefined             *)
ExecFailed(v, error) ==
  IF CanReadProp(error)
  THEN [v EXCEPT !.pc = "returned", !.execError = error,
                 !.report = [passed |-> FALSE,
                             results |-> <<FailResult("Code execution",
                               Str("Failed to execute code: "
                                   \o ToText(MessageOf(error))))>>]]
  ELSE [v EXCEPT !.pc = "raised", !.error = PropTypeError,
                 !.execError = error]

(* the source calls describe(g, body) at its top level; when body throws,  *)
(* the source either catches the exception (try/catch around the call) or  *)
(* lets it end the execution                                               *)
VmExecDescribe(g, body, caught) ==
  LET st == DescribeCall(RegState(vm.sandbox.tests, vm.sandbox.describe, FALSE),
                         g, body, TRUE)
      v == [vm EXCEPT !.sandbox.tests = st.tests,
                      !.sandbox.describe = st.describe,
                      !.own = @ \o SubSeq(NamesOf(st.tests),
                                          Len(vm.sandbox.tests) + 1,
                                          Len(st.tests))]
  IN /\ vm.pc = "exec"
     /\ Alive(st.tests) <= MaxTests
     /\ caught => st.threw
     /\ vm' = IF st.threw /\ ~caught THEN ExecFailed(v, Err("boom")) ELSE v
     /\ UNCHANGED <<hostVars, run, wfVars, utilVars>>

(* the source calls registerApp(App): the function bound in the sandbox is *)
(* the host's, it writes the host's registeredApp                          *)
VmExecRegisterApp ==
  /\ vm.pc = "exec"
  /\ registeredApp' = "App"
  /\ UNCHANGED <<tests, currentDescribe, run, vm, wfVars, utilVars>>

(* the execution raises error: an uncaught top-level throw, the timeout,   *)
(* or (before the first statement) a syntax error                          *)
VmExecThrow(error) ==
  /\ vm.pc = "exec"
  /\ vm' = ExecFailed(vm, error)
  /\ UNCHANGED <<hostVars, run, wfVars, utilVars>>

\* vm.runInContext returns normally: the drain begins
VmExecDone ==
  /\ vm.pc = "exec"
  /\ vm' = [vm EXCEPT !.pc = "loop", !.executed = TRUE,
                      !.snapshot = vm.sandbox.tests]
  /\ UNCHANGED <<hostVars, run, wfVars, utilVars>>

\* test.fn() throws e synchronously
VmInvokeThrow(e) ==
  /\ vm.pc = "loop"
  /\ vm.idx < Len(DrainTests)
  /\ LET test == DrainTests[vm.idx + 1]
     IN vm' = CatchPush(vm, test.name, test.fn, e)
  /\ UNCHANGED <<hostVars, run, wfVars, utilVars>>

(* test.fn() returns k, not an instance of the host's Promise: the result  *)
(* is pushed at once.  ok tells whether a returned thenable will fulfil.   *)
VmInvokeSync(k, ok) ==
  /\ vm.pc = "loop"
  /\ vm.idx < Len(DrainTests)
  /\ ~InstanceOfPromise(k)
  /\ k = "void" => ok
  /\ LET test == DrainTests[vm.idx + 1]
         v == PassPush(vm, test.name, test.fn, ok)
     IN vm' = [v EXCEPT !.unawaited = IF k = "thenable" THEN 1 ELSE @]
  /\ UNCHANGED <<hostVars, run, wfVars, utilVars>>

(* an awaitable that a body returned and the drain did not wait for        *)
(* settles, at some time of its own                                        *)
VmThenableSettles ==
  /\ vm.pc # "idle"
  /\ vm.unawaited = 1
  /\ vm' = [vm EXCEPT !.unawaited = 0]
  /\ UNCHANGED <<hostVars, run, wfVars, utilVars>>

\* test.fn() returns a Promise: `await result` suspends the drain
VmInvokePromise ==
  /\ vm.pc = "loop"
  /\ vm.idx < Len(DrainTests)
  /\ vm' = [vm EXCEPT !.pc = "await", !.awaiting = "promise"]
  /\ UNCHANGED <<hostVars, run, wfVars, utilVars>>

VmSettleOk ==
  /\ vm.pc = "await"
  /\ LET test == DrainTests[vm.idx + 1]
     IN vm' = PassPush(vm, test.name, test.fn, TRUE)
  /\ UNCHANGED <<hostVars, run, wfVars, utilVars>>

VmSettleReject(e) ==
  /\ vm.pc = "await"
  /\ LET test == DrainTests[vm.idx + 1]
     IN vm' = CatchPush(vm, test.name, test.fn, e)
  /\ UNCHANGED <<hostVars, run, wfVars, utilVars>>

(* test.fn() calls the sandbox's it(n, ...) and returns: the case is       *)
(* pushed onto the array that the for-of is iterating                      *)
VmBodyRegisters(n) ==
  /\ vm.pc = "loop"
  /\ vm.idx < Len(DrainTests)
  /\ Alive(vm.sandbox.tests) < MaxTests
  /\ LET test == DrainTests[vm.idx + 1]
         st == ItPush(RegState(vm.sandbox.tests, vm.sandbox.describe, FALSE),
                      n, TRUE)
         v == PassPush(vm, test.name, test.fn, TRUE)
     IN vm' = [v EXCEPT !.sandbox.tests = st.tests,
                        !.own = Append(@, st.tests[Len(st.tests)].name)]
  /\ UNCHANGED <<hostVars, run, wfVars, utilVars>>

\* the iterator is done: return {passed, results}
VmReturn ==
  /\ vm.pc = "loop"
  /\ vm.idx >= Len(DrainTests)
  /\ vm' = [vm EXCEPT !.pc = "returned", !.report = Report(vm.results)]
  /\ UNCHANGED <<hostVars, run, wfVars, utilVars>>

\* the caller takes the report or catches the rejection; the sandbox goes
VmCollect ==
  /\ Finished(vm)
  /\ vm' = IdleVm(vm.own # <<>>)
  /\ UNCHANGED <<hostVars, run, wfVars, utilVars>>

(***************************************************************************)
(* Overlapping runTestsInVM invocations: vms[i] is invocation i, a record  *)
(* as vm is.  There is one thread: an invocation runs from its call, or    *)
(* from the settling of what it awaits, to its next `await result` or to   *)
(* its end, and meanwhile no other invocation runs; a second invocation    *)
(* starts while the first is suspended.  overlap tells that the invocation *)
(* started, or was suspended, while the other one was suspended.           *)
(***************************************************************************)
\* what a body or a source throws or rejects with, one of each outcome
OverlapThrown == {Err("boom"), Null}

\* executing synchronous code: the source, or the drain between two awaits
Running(v) == v.pc \in {"exec", "loop"}

\* the thread is free for invocation i to run
MayRun(i) == \A j \in Invocations \ {i} : ~Running(vms[j])

\* another invocation is suspended in `await result`
OtherSuspended(i) == \E j \in Invocations \ {i} : vms[j].pc = "await"

\* a drain iterating the first invocation's registry
CoDrainTestsShared(i) == vms[1].sandbox.tests

\* the array the drain of invocation i iterates
CoDrainTests(i) == vms[i].sandbox.tests

CoRunTestsInVM(i) ==
  /\ vms[i].pc = "idle"
  /\ MayRun(i)
  /\ vms' = [vms EXCEPT ![i] = [IdleVm(FALSE) EXCEPT
                                  !.pc = "exec", !.sandbox = FreshSandbox,
                                  !.overlap = OtherSuspended(i)]]
  /\ UNCHANGED <<runnerVars, val, ac, ex, runs>>

\* the source of invocation i calls it(n, fn)
CoExecIt(i, n) ==
  /\ vms[i].pc = "exec"
  /\ Len(vms[i].sandbox.tests) < MaxTests
  /\ LET v == vms[i]
         st == ItPush(RegState(v.sandbox.tests, v.sandbox.describe, FALSE),
                      n, TRUE)
     IN vms' = [vms EXCEPT ![i] =
                  [v EXCEPT !.sandbox.tests = st.tests,
                            !.own = Append(@, st.tests[Len(st.tests)].name)]]
  /\ UNCHANGED <<runnerVars, val, ac, ex, runs>>

\* the source of invocation i calls describe(g, body); body does not throw
CoExecDescribe(i, g, body) ==
  LET v == vms[i]
      st == DescribeCall(RegState(v.sandbox.tests, v.sandbox.describe, FALSE),
                         g, body, TRUE)
  IN /\ v.pc = "exec"
     /\ ~st.threw
     /\ Len(st.tests) <= MaxTests
     /\ vms' = [vms EXCEPT ![i] =
                  [v EXCEPT !.sandbox.tests = st.tests,
                            !.sandbox.describe = st.describe,
                            !.own = @ \o SubSeq(NamesOf(st.tests),
                                                Len(v.sandbox.tests) + 1,
                                                Len(st.tests))]]
     /\ UNCHANGED <<runnerVars, val, ac, ex, runs>>

\* the execution of invocation i raises error
CoExecThrow(i, error) ==
  /\ vms[i].pc = "exec"
  /\ vms' = [vms EXCEPT ![i] = ExecFailed(vms[i], error)]
  /\ UNCHANGED <<runnerVars, val, ac, ex, runs>>

\* vm.runInContext returns: the drain of invocation i begins
CoExecDone(i) ==
  /\ vms[i].pc = "exec"
  /\ vms' = [vms EXCEPT ![i] = [vms[i] EXCEPT !.pc = "loop", !.executed = TRUE,
                                  !.snapshot = vms[i].sandbox.tests]]
  /\ UNCHANGED <<runnerVars, val, ac, ex, runs>>

\* test.fn() throws e
CoInvokeThrow(i, e) ==
  /\ vms[i].pc = "loop"
  /\ vms[i].idx < Len(CoDrainTests(i))
  /\ LET test == CoDrainTests(i)[vms[i].idx + 1]
     IN vms' = [vms EXCEPT ![i] = CatchPush(vms[i], test.name, test.fn, e)]
  /\ UNCHANGED <<runnerVars, val, ac, ex, runs>>

\* test.fn() returns k, not a Promise instance: no await
CoInvokeSync(i, k) ==
  /\ vms[i].pc = "loop"
  /\ vms[i].idx < Len(CoDrainTests(i))
  /\ ~InstanceOfPromise(k)
  /\ LET test == CoDrainTests(i)[vms[i].idx + 1]
     IN vms' = [vms EXCEPT ![i] = PassPush(vms[i], test.name, test.fn, TRUE)]
  /\ UNCHANGED <<runnerVars, val, ac, ex, runs>>

\* test.fn() returns a Promise: invocation i is suspended, the thread free
CoInvokePromise(i) ==
  /\ vms[i].pc = "loop"
  /\ vms[i].idx < Len(CoDrainTests(i))
  /\ vms' = [vms EXCEPT ![i] = [vms[i] EXCEPT !.pc = "await",
                                  !.awaiting = "promise",
                                  !.overlap = @ \/ OtherSuspended(i)]]
  /\ UNCHANGED <<runnerVars, val, ac, ex, runs>>

\* the awaited promise fulfils, and invocation i gets the thread
CoSettleOk(i) ==
  /\ vms[i].pc = "await"
  /\ MayRun(i)
  /\ LET test == CoDrainTests(i)[vms[i].idx + 1]
     IN vms' = [vms EXCEPT ![i] = PassPush(vms[i], test.name, test.fn, TRUE)]
  /\ UNCHANGED <<runnerVars, val, ac, ex, runs>>

\* the awaited promise rejects with e, and invocation i gets the thread
CoSettleReject(i, e) ==
  /\ vms[i].pc = "await"
  /\ MayRun(i)
  /\ LET test == CoDrainTests(i)[vms[i].idx + 1]
     IN vms' = [vms EXCEPT ![i] = CatchPush(vms[i], test.name, test.fn, e)]
  /\ UNCHANGED <<runnerVars, val, ac, ex, runs>>

\* the iterator of invocation i is done: return {passed, results}
CoReturn(i) ==
  /\ vms[i].pc = "loop"
  /\ vms[i].idx >= Len(CoDrainTests(i))
  /\ vms' = [vms EXCEPT ![i] = [vms[i] EXCEPT !.pc = "returned",
                                  !.report = Report(vms[i].results)]]
  /\ UNCHANGED <<runnerVars, val, ac, ex, runs>>

\* the caller of invocation i takes its outcome
CoCollect(i) ==
  /\ Finished(vms[i])
  /\ vms' = [vms EXCEPT ![i] = IdleVm(FALSE)]
  /\ UNCHANGED <<runnerVars, val, ac, ex, runs>>

(***************************************************************************)
(* Overlapping runTests() invocations and it() calls on the one host       *)
(* registry: runs.r[i] is invocation i, a record as run is.  There is one  *)
(* thread: a run goes from its call, or from the settling of what it       *)
(* awaits, to its next `await test.fn()` or to its end; it() is called and *)
(* a run is started while no run is executing.                             *)
(***************************************************************************)
\* no runTests() invocation other than i is executing synchronous code
HostFree(i) == \A j \in Invocations \ {i} : runs.r[j].pc # "loop"

\* the entries of invoked that are FALSE
Uninvoked(invoked) == Cardinality({k \in 1..Len(invoked) : ~invoked[k]})

\* it(n, fn), called while every run is suspended, finished or not started
OvIt(n) ==
  /\ HostFree(0)
  /\ Len(tests) < MaxTests
  /\ tests' = ItPush(RegState(tests, currentDescribe, FALSE), n, FALSE).tests
  /\ runs' = [runs EXCEPT !.invoked = Append(@, FALSE)]
  /\ UNCHANGED <<currentDescribe, registeredApp, run, vm, wfVars, val, ac,
                 ex, vms>>

OvRunTests(i) ==
  /\ runs.r[i].pc = "idle"
  /\ HostFree(i)
  /\ runs' = [runs EXCEPT !.r[i] = [IdleRun(FALSE) EXCEPT !.pc = "loop",
                                                          !.snapshot = tests]]
  /\ UNCHANGED <<runnerVars, val, ac, ex, vms>>

\* the iterator of run i has an element: test.fn() throws e
OvInvokeThrow(i, e) ==
  /\ runs.r[i].pc = "loop"
  /\ runs.r[i].idx < Len(tests)
  /\ LET test == tests[runs.r[i].idx + 1]
     IN runs' = [runs EXCEPT
                   !.r[i] = CatchPush(@, test.name, test.fn, e),
                   !.invoked[runs.r[i].idx + 1] = TRUE]
  /\ UNCHANGED <<runnerVars, val, ac, ex, vms>>

\* test.fn() returns k: `await` suspends run i, holding test
OvInvokeAwait(i, k) ==
  /\ runs.r[i].pc = "loop"
  /\ runs.r[i].idx < Len(tests)
  /\ runs' = [runs EXCEPT
                !.r[i] = [@ EXCEPT !.pc = "await", !.awaiting = k,
                                   !.test = tests[runs.r[i].idx + 1]],
                !.invoked[runs.r[i].idx + 1] = TRUE]
  /\ UNCHANGED <<runnerVars, val, ac, ex, vms>>

\* what run i awaits is fulfilled, and the run gets the thread
OvSettleOk(i) ==
  /\ runs.r[i].pc = "await"
  /\ HostFree(i)
  /\ runs' = [runs EXCEPT !.r[i] =
                PassPush(@, runs.r[i].test.name, runs.r[i].test.fn, TRUE)]
  /\ UNCHANGED <<runnerVars, val, ac, ex, vms>>

\* what run i awaits rejects with e, and the run gets the thread
OvSettleReject(i, e) ==
  /\ runs.r[i].pc = "await"
  /\ runs.r[i].awaiting # "void"
  /\ HostFree(i)
  /\ runs' = [runs EXCEPT !.r[i] =
                CatchPush(@, runs.r[i].test.name, runs.r[i].test.fn, e)]
  /\ UNCHANGED <<runnerVars, val, ac, ex, vms>>

(* the iterator of run i is done, its index being at or past the length    *)
(* the array has now: tests.length = 0; return {passed, results}           *)
OvReturn(i) ==
  /\ runs.r[i].pc = "loop"
  /\ runs.r[i].idx >= Len(tests)
  /\ tests' = <<>>
  /\ runs' = [runs EXCEPT
                !.r[i] = [@ EXCEPT !.pc = "returned",
                                   !.report = Report(runs.r[i].results),
                                   !.cleared = @ + 1],
                !.invoked = <<>>,
                !.lost = IF Uninvoked(runs.invoked) > 0 THEN 1 ELSE @]
  /\ UNCHANGED <<currentDescribe, registeredApp, run, vm, wfVars, val, ac,
                 ex, vms>>

\* the caller of run i takes the report, or catches the rejection
OvCollect(i) ==
  /\ Finished(runs.r[i])
  /\ runs' = [runs EXCEPT !.r[i] = IdleRun(FALSE)]
  /\ UNCHANGED <<runnerVars, val, ac, ex, vms>>

(***************************************************************************)
(* waitFor(callback, {timeout, interval}): one call.  now is Date.now();   *)
(* it advances on its own, also while the call runs.  pc is "idle",        *)
(* "check" (at the while condition), "await" (suspended in `await          *)
(* result`), "sleep" (suspended in the setTimeout promise), "resolved" or  *)
(* "rejected".  attempts counts the callback's invocations, successes      *)
(* those that returned and whose returned awaitable, if any, fulfilled.    *)
(***************************************************************************)
IdleWf ==
  [pc |-> "idle", timeout |-> 0, interval |-> 0, startTime |-> 0,
   lastError |-> Undefined, wake |-> 0, error |-> Undefined,
   attempts |-> 0, failures |-> 0, lastThrown |-> Undefined,
   successes |-> 0]

\* new Error(`waitFor timeout after ${timeout}ms`)
WaitForTimeoutError == Err("waitFor timeout")

\* the while condition with <= for <
InTimeInclusive(w) == now - w.startTime <= w.timeout

\* the while condition: Date.now() - startTime < timeout
InTime(w) == now - w.startTime < w.timeout

\* throw lastError || new Error(...)
GiveUpError(w) == IF Truthy(w.lastError) THEN w.lastError ELSE WaitForTimeoutError

(* catch (e) { lastError = e; await new Promise(r => setTimeout(r, interval)) } *)
CatchSleep(w, e) ==
  [w EXCEPT !.lastError = e, !.pc = "sleep", !.wake = now + w.interval,
            !.failures = @ + 1, !.lastThrown = e]

(* The clock advances while the call is suspended or not running.  The    *)
(* first test of the while condition follows the read of startTime at      *)
(* once; the clock goes past MaxTime only up to a timer that is pending.    *)
Tick ==
  /\ now < MaxTime \/ (wf.pc = "sleep" /\ now < wf.wake)
  /\ wf.pc = "check" => wf.attempts > 0
  /\ now' = now + 1
  /\ UNCHANGED <<hostVars, run, vm, utilVars, wf>>

\* called early enough for the deadline to lie within the clock's range
WaitFor(timeout, interval) ==
  /\ wf.pc = "idle"
  /\ now + timeout <= MaxTime
  /\ wf' = [IdleWf EXCEPT !.pc = "check", !.timeout = timeout,
                          !.interval = interval, !.startTime = now]
  /\ UNCHANGED <<hostVars, run, vm, utilVars, now>>

\* in time; callback() throws e
WfInvokeThrow(e) ==
  /\ wf.pc = "check"
  /\ InTime(wf)
  /\ wf.attempts < MaxAttempts
  /\ wf' = CatchSleep([wf EXCEPT !.attempts = @ + 1], e)
  /\ UNCHANGED <<hostVars, run, vm, utilVars, now>>

(* in time; callback() returns k, not a Promise instance: return.  A       *)
(* returned thenable is left alone, unsettled; it may reject later on.     *)
WfInvokeReturn(k) ==
  /\ wf.pc = "check"
  /\ InTime(wf)
  /\ wf.attempts < MaxAttempts
  /\ ~InstanceOfPromise(k)
  /\ wf' = [wf EXCEPT !.attempts = @ + 1, !.pc = "resolved",
                      !.successes = IF k = "void" THEN @ + 1 ELSE @]
  /\ UNCHANGED <<hostVars, run, vm, utilVars, now>>

\* in time; callback() returns a Promise: `await result`
WfInvokePromise ==
  /\ wf.pc = "check"
  /\ InTime(wf)
  /\ wf.attempts < MaxAttempts
  /\ wf' = [wf EXCEPT !.attempts = @ + 1, !.pc = "await"]
  /\ UNCHANGED <<hostVars, run, vm, utilVars, now>>

WfSettleOk ==
  /\ wf.pc = "await"
  /\ wf' = [wf EXCEPT !.pc = "resolved", !.successes = @ + 1]
  /\ UNCHANGED <<hostVars, run, vm, utilVars, now>>

WfSettleReject(e) ==
  /\ wf.pc = "await"
  /\ wf' = CatchSleep(wf, e)
  /\ UNCHANGED <<hostVars, run, vm, utilVars, now>>

\* the timer fires, no sooner than interval after it was set
WfWake ==
  /\ wf.pc = "sleep"
  /\ now >= wf.wake
  /\ wf' = [wf EXCEPT !.pc = "check"]
  /\ UNCHANGED <<hostVars, run, vm, utilVars, now>>

\* the while condition is false: throw lastError || new Error(...)
WfGiveUp ==
  /\ wf.pc = "check"
  /\ ~InTime(wf)
  /\ wf' = [wf EXCEPT !.pc = "rejected", !.error = GiveUpError(wf)]
  /\ UNCHANGED <<hostVars, run, vm, utilVars, now>>

(***************************************************************************)
(* validateProblemTests(problemPath) of @fixmyhome/test-utils: one call.   *)
(* pc is "idle", "solution" (suspended in the run of solution/), "src"     *)
(* (suspended in the run of src/) or "done".  A run is a call of           *)
(* runTestsWithCode, which always hands back a report: that of             *)
(* runTestsInVM, or a single failing entry when test.ts is missing or      *)
(* runTestsInVM raised.  runs lists the runs performed, in order.          *)
(***************************************************************************)
\* entries in the report of one run
MaxResults == 2

IdleVal ==
  [pc |-> "idle", solutionExists |-> FALSE,
   solutionResult |-> NoReport, srcResult |-> NoReport,
   errors |-> <<>>, valid |-> FALSE, runs |-> <<>>]

\* entries of a report of runTestsInVM
ResultEntries ==
  {PassResult("a"), FailResult("a", Str("boom")), FailResult("b", Undefined)}

\* what runTestsWithCode may hand back
RunReports ==
  {Report(rs) : rs \in SeqsUpTo(ResultEntries, MaxResults)}
    \cup {Report(<<FailResult("Load test file", Str("test.ts not found"))>>),
          Report(<<FailResult("Run tests in VM", Str(PropTypeError.v))>>)}

\* `  - ${result.name}: ${result.error}` for each failing result, in order
RECURSIVE FailedLines(_)
FailedLines(results) ==
  IF results = <<>> THEN <<>>
  ELSE (IF Head(results).passed THEN <<>>
        ELSE <<"  - " \o Head(results).name \o ": "
                 \o ToText(Head(results).error)>>)
       \o FailedLines(Tail(results))

\* if (!solutionResult.passed) { errors.push(...) ... }
SolutionCheck(errors, solutionResult) ==
  IF ~solutionResult.passed
  THEN errors \o <<"solution/ code failed tests (should pass all tests)",
                   "Failed tests:">> \o FailedLines(solutionResult.results)
  ELSE errors

\* the one entry of errors when solution/ is missing
NoSolutionNote == "No solution/ folder - skipping test validation"

SrcPassedError == "src/ code passed all tests (should have bugs that fail tests)"

\* the check of the src/ run left out
SrcCheckSkipped(errors, srcResult) == errors

\* if (srcResult.passed) errors.push(...)
SrcCheck(errors, srcResult) ==
  IF srcResult.passed THEN Append(errors, SrcPassedError) ELSE errors

\* the call, up to the first await (or to its end when solution/ is missing)
ValidateProblemTests(solutionExists) ==
  /\ val.pc = "idle"
  /\ val' = IF solutionExists
            THEN [IdleVal EXCEPT !.pc = "solution", !.solutionExists = TRUE,
                                 !.runs = <<"solution">>]
            ELSE [IdleVal EXCEPT !.pc = "done", !.valid = TRUE,
                                 !.errors = <<NoSolutionNote>>]
  /\ UNCHANGED <<runnerVars, ac, auxVars>>

\* the run of solution/ hands back report; the run of src/ is started
ValSolutionRun(report) ==
  /\ val.pc = "solution"
  /\ val' = [val EXCEPT !.pc = "src", !.solutionResult = report,
                        !.errors = SolutionCheck(@, report),
                        !.runs = Append(@, "src")]
  /\ UNCHANGED <<runnerVars, ac, auxVars>>

\* a return whose valid looks at the src/ run alone
ValSrcRunAlone(report) ==
  LET errors == SrcCheck(val.errors, report)
  IN /\ val.pc = "src"
     /\ val' = [val EXCEPT !.pc = "done", !.srcResult = report,
                           !.errors = errors, !.valid = ~report.passed]
     /\ UNCHANGED <<runnerVars, ac, auxVars>>

\* the run of src/ hands back report; the function returns
ValSrcRun(report) ==
  LET errors == SrcCheck(val.errors, report)
  IN /\ val.pc = "src"
     /\ val' = [val EXCEPT !.pc = "done", !.srcResult = report,
                           !.errors = errors, !.valid = (Len(errors) = 0)]
     /\ UNCHANGED <<runnerVars, ac, auxVars>>

\* the caller takes the outcome
ValCollect ==
  /\ val.pc = "done"
  /\ val' = IdleVal
  /\ UNCHANGED <<runnerVars, ac, auxVars>>

(***************************************************************************)
(* act(callback): one call, with the timers of the event loop.  time is    *)
(* the loop's clock; timers holds the pending timers in the order they     *)
(* were set, each with the time it is due and who set it ("act" or the     *)
(* callback, "cb").  pc is "idle", "await" (suspended in `await result`),  *)
(* "zero" (suspended in one of the three setTimeout(..., 0) promises),     *)
(* "delay" (suspended in the setTimeout(..., 10) promise), "resolved" or   *)
(* "rejected".  awaitable is the state of what the callback returned:      *)
(* "none", "pending", "fulfilled" or "rejected".  log lists what has       *)
(* happened, in order.                                                     *)
(***************************************************************************)
\* the clock of the act model runs from 0 to MaxActTime
MaxActTime == 11
\* setTimeout(resolve, 10)
ActDelay == 10
\* the setTimeout(resolve, 0) waits
ZeroWaits == 3

IdleAct ==
  [pc |-> "idle", time |-> 0, timers |-> <<>>, calls |-> 0,
   awaitable |-> "none", zeros |-> 0, error |-> Undefined, log |-> <<>>]

Timer(due, owner) == [due |-> due, owner |-> owner]

\* the timer the loop runs next: the earliest due, the first set among equals
NextTimer(timers) ==
  CHOOSE i \in 1..Len(timers) :
    \A j \in 1..Len(timers) :
      timers[i].due < timers[j].due \/ (timers[i].due = timers[j].due /\ i <= j)

\* timers without its i-th element
Without(timers, i) ==
  SubSeq(timers, 1, i - 1) \o SubSeq(timers, i + 1, Len(timers))

\* await new Promise(resolve => setTimeout(resolve, 0)), the first of three
StartWaits(a) ==
  [a EXCEPT !.pc = "zero", !.timers = Append(@, Timer(a.time, "act"))]

\* setTimeout(..., 0) by the callback, when it sets one
CallbackTimers(a, sets) ==
  IF sets THEN [a EXCEPT !.timers = Append(@, Timer(a.time, "cb"))] ELSE a

\* callback() throws e: act rejects
ActCallThrow(e, sets) ==
  /\ ac.pc = "idle"
  /\ ac' = [CallbackTimers(ac, sets) EXCEPT !.calls = @ + 1, !.pc = "rejected",
                                            !.error = e,
                                            !.log = Append(@, "call")]
  /\ UNCHANGED <<runnerVars, val, auxVars>>

(* callback() returns k, having set a zero-delay timer or not: a Promise   *)
(* is awaited, anything else is not                                        *)
ActCall(k, sets) ==
  LET called == [CallbackTimers(ac, sets) EXCEPT
                   !.calls = @ + 1, !.log = Append(@, "call"),
                   !.awaitable = IF k = "void" THEN "none" ELSE "pending"]
  IN /\ ac.pc = "idle"
     /\ ac' = IF InstanceOfPromise(k) THEN [called EXCEPT !.pc = "await"]
              ELSE StartWaits(called)
     /\ UNCHANGED <<runnerVars, val, auxVars>>

\* what the callback returned fulfils
ActSettleOk ==
  /\ ac.awaitable = "pending"
  /\ LET a == [ac EXCEPT !.awaitable = "fulfilled", !.log = Append(@, "settle")]
     IN ac' = IF ac.pc = "await" THEN StartWaits(a) ELSE a
  /\ UNCHANGED <<runnerVars, val, auxVars>>

\* what the callback returned rejects with e
ActSettleReject(e) ==
  /\ ac.awaitable = "pending"
  /\ LET a == [ac EXCEPT !.awaitable = "rejected", !.log = Append(@, "settle")]
     IN ac' = IF ac.pc = "await" THEN [a EXCEPT !.pc = "rejected", !.error = e]
              ELSE a
  /\ UNCHANGED <<runnerVars, val, auxVars>>

\* the loop's clock advances
ActTick ==
  /\ ac.time < MaxActTime
  /\ ac' = [ac EXCEPT !.time = @ + 1]
  /\ UNCHANGED <<runnerVars, val, auxVars>>

(* the loop runs the next timer that is due.  The callback's timer is just *)
(* noted; a timer of act resumes it, up to its next await or to its end.   *)
ActTimerFires ==
  /\ ac.timers # <<>>
  /\ LET i == NextTimer(ac.timers)
         t == ac.timers[i]
         a == [ac EXCEPT !.timers = Without(@, i)]
     IN /\ t.due <= ac.time
        /\ ac' =
             CASE t.owner = "cb" -> [a EXCEPT !.log = Append(@, "cb")]
               [] ac.pc = "zero" /\ ac.zeros + 1 < ZeroWaits ->
                    [a EXCEPT !.zeros = @ + 1, !.log = Append(@, "zero"),
                              !.timers = Append(@, Timer(ac.time, "act"))]
               [] ac.pc = "zero" ->
                    [a EXCEPT !.zeros = @ + 1, !.log = Append(@, "zero"),
                              !.pc = "delay",
                              !.timers = Append(@, Timer(ac.time + ActDelay, "act"))]
               [] OTHER -> [a EXCEPT !.pc = "resolved",
                                     !.log = Append(@, "delay")]
  /\ UNCHANGED <<runnerVars, val, auxVars>>

(***************************************************************************)
(* expect(actual): the comparators, applied to values of every type.  A    *)
(* value is its type and a number: the number itself, the length of a      *)
(* string of "a"s, 1 / 0 for true / false, the identity of an object.      *)
(* ex records the last application and which comparators threw.            *)
(***************************************************************************)
\* integers are -MaxInt..MaxInt
MaxInt == 2

Number(n) == [t |-> "number", n |-> n]
NaN == [t |-> "NaN", n |-> 0]
Text(len) == [t |-> "string", n |-> len]
Boolean(b) == [t |-> "boolean", n |-> IF b THEN 1 ELSE 0]
Object(id) == [t |-> "object", n |-> id]

Numbers == {Number(n) : n \in -MaxInt..MaxInt}

Values ==
  Numbers \cup {NaN, Text(0), Text(1), Boolean(TRUE), Boolean(FALSE),
                [t |-> "null", n |-> 0], [t |-> "undefined", n |-> 0],
                Object(1), Object(2)}

\* a === b: same type and same value, NaN equal to nothing
StrictEquals(a, b) == a.t = b.t /\ a.n = b.n /\ a.t # "NaN"

\* ToBoolean(a), as `if (actual)` and `!actual` apply it
ToBoolean(a) ==
  CASE a.t \in {"number", "string", "boolean"} -> a.n # 0
    [] a.t = "object" -> TRUE
    [] OTHER -> FALSE

\* a <= b and a >= b on numbers: false when either is NaN
LessOrEqual(a, b) == a.t = "number" /\ b.t = "number" /\ a.n <= b.n
GreaterOrEqual(a, b) == a.t = "number" /\ b.t = "number" /\ a.n >= b.n

\* toBe throws: if (actual !== expected)
ToBeThrows(actual, expected) == ~StrictEquals(actual, expected)
\* not.toBe throws: if (actual === expected)
NotToBeThrows(actual, expected) == StrictEquals(actual, expected)
\* toBeTruthy throws: if (!actual)
ToBeTruthyThrows(actual) == ~ToBoolean(actual)
\* toBeFalsy throws: if (actual)
ToBeFalsyThrows(actual) == ToBoolean(actual)
\* toBeGreaterThan throws: if (actual <= expected)
ToBeGreaterThanThrows(actual, expected) == LessOrEqual(actual, expected)

\* toBeLessThan with > for >=
ToBeLessThanThrowsStrict(actual, expected) ==
  GreaterOrEqual(actual, expected) /\ ~StrictEquals(actual, expected)

\* toBeLessThan throws: if (actual >= expected)
ToBeLessThanThrows(actual, expected) == GreaterOrEqual(actual, expected)

IdleExpect ==
  [op |-> "none", actual |-> Number(0), expected |-> Number(0),
   threw |-> <<FALSE, FALSE>>]

\* expect(actual).toBe(expected) and expect(actual).not.toBe(expected)
ExpectToBe(actual, expected) ==
  /\ ex' = [op |-> "toBe", actual |-> actual, expected |-> expected,
            threw |-> <<ToBeThrows(actual, expected),
                        NotToBeThrows(actual, expected)>>]
  /\ UNCHANGED <<runnerVars, val, ac, vms, runs>>

\* expect(actual).toBeTruthy() and expect(actual).toBeFalsy()
ExpectTruthy(actual) ==
  /\ ex' = [op |-> "toBeTruthy", actual |-> actual, expected |-> Number(0),
            threw |-> <<ToBeTruthyThrows(actual), ToBeFalsyThrows(actual)>>]
  /\ UNCHANGED <<runnerVars, val, ac, vms, runs>>

\* expect(actual).toBeGreaterThan(expected) and .toBeLessThan(expected)
ExpectOrder(actual, expected) ==
  /\ ex' = [op |-> "toBeGreaterThan", actual |-> actual, expected |-> expected,
            threw |-> <<ToBeGreaterThanThrows(actual, expected),
                        ToBeLessThanThrows(actual, expected)>>]
  /\ UNCHANGED <<runnerVars, val, ac, vms, runs>>

(***************************************************************************)
(* Specifications                                                          *)
(***************************************************************************)
Init ==
  /\ tests = <<>>
  /\ currentDescribe = ""
  /\ registeredApp = "null"
  /\ run = IdleRun(FALSE)
  /\ vm = IdleVm(FALSE)
  /\ now = 0
  /\ wf = IdleWf
  /\ val = IdleVal
  /\ ac = IdleAct
  /\ ex = IdleExpect
  /\ vms = [i \in Invocations |-> IdleVm(FALSE)]
  /\ runs = IdleRuns

\* the host runner and the sandbox runner, each call awaited
Next ==
  \/ \E n \in Names : It(n)
  \/ \E g \in Groups, body \in Bodies : Describe(g, body)
  \/ RegisterApp
  \/ RunTests
  \/ \E e \in Thrown : RunInvokeThrow(e)
  \/ \E k \in Returned : RunInvokeAwait(k)
  \/ RunSettleOk
  \/ \E e \in Thrown : RunSettleReject(e)
  \/ RunReturn
  \/ RunCollect
  \/ RunTestsInVM
  \/ \E n \in Names : VmExecIt(n)
  \/ \E g \in Groups, body \in Bodies, caught \in BOOLEAN :
       VmExecDescribe(g, body, caught)
  \/ VmExecRegisterApp
  \/ \E e \in ExecErrors : VmExecThrow(e)
  \/ VmExecDone
  \/ \E e \in Thrown : VmInvokeThrow(e)
  \/ \E k \in Returned, ok \in BOOLEAN : VmInvokeSync(k, ok)
  \/ VmThenableSettles
  \/ VmInvokePromise
  \/ VmSettleOk
  \/ \E e \in Thrown : VmSettleReject(e)
  \/ VmReturn
  \/ VmCollect

Spec == Init /\ [][Next]_vars

\* one waitFor call against the clock
NextWaitFor ==
  \/ Tick
  \/ \E t \in 0..MaxTimeout, i \in 0..MaxInterval : WaitFor(t, i)
  \/ \E e \in Thrown : WfInvokeThrow(e)
  \/ \E k \in Returned : WfInvokeReturn(k)
  \/ WfInvokePromise
  \/ WfSettleOk
  \/ \E e \in Thrown : WfSettleReject(e)
  \/ WfWake
  \/ WfGiveUp

SpecWaitFor == Init /\ [][NextWaitFor]_vars

\* the callback is invoked whenever the loop is entered
WfAttempt ==
  \/ \E e \in Thrown : WfInvokeThrow(e)
  \/ WfInvokePromise

(* one waitFor call whose callback fails on every attempt: it throws, or   *)
(* returns a Promise that rejects.  The clock advances, timers fire, the   *)
(* returned promises settle and the function runs when it can.             *)
NextWaitForFailing ==
  \/ Tick
  \/ \E t \in 0..MaxTimeout, i \in 0..MaxInterval : WaitFor(t, i)
  \/ WfAttempt
  \/ \E e \in Thrown : WfSettleReject(e)
  \/ WfWake
  \/ WfGiveUp

SpecWaitForFailing ==
  /\ Init
  /\ [][NextWaitForFailing]_vars
  /\ WF_vars(Tick)
  /\ WF_vars(WfAttempt)
  /\ WF_vars(\E e \in Thrown : WfSettleReject(e))
  /\ WF_vars(WfWake)
  /\ WF_vars(WfGiveUp)

\* sandbox runs only, one after the other; the host registers nothing
NextSandboxes ==
  \/ RunTestsInVM
  \/ \E n \in Names : VmExecIt(n)
  \/ \E g \in Groups, body \in Bodies, caught \in BOOLEAN :
       VmExecDescribe(g, body, caught)
  \/ VmExecRegisterApp
  \/ \E e \in ExecErrors : VmExecThrow(e)
  \/ VmExecDone
  \/ \E e \in Thrown : VmInvokeThrow(e)
  \/ \E k \in Returned, ok \in BOOLEAN : VmInvokeSync(k, ok)
  \/ VmThenableSettles
  \/ VmInvokePromise
  \/ VmSettleOk
  \/ \E e \in Thrown : VmSettleReject(e)
  \/ VmReturn
  \/ VmCollect

SpecSandboxes == Init /\ [][NextSandboxes]_vars

\* registrations only: on the host, and by the sources of sandbox runs
NextRegister ==
  \/ \E n \in Names : It(n)
  \/ \E g \in Groups, body \in Bodies : Describe(g, body)
  \/ RunTestsInVM
  \/ \E n \in Names : VmExecIt(n)
  \/ \E g \in Groups, body \in Bodies, caught \in BOOLEAN :
       VmExecDescribe(g, body, caught)
  \/ \E e \in ExecErrors : VmExecThrow(e)
  \/ VmCollect

SpecRegister == Init /\ [][NextRegister]_vars

\* the runners, with case bodies that register cases while a drain runs
NextDrainGrows ==
  \/ Next
  \/ \E n \in Names : RunBodyRegisters(n)
  \/ \E n \in Names : VmBodyRegisters(n)

SpecDrainGrows == Init /\ [][NextDrainGrows]_vars

\* one call of act, the event loop and what the callback returned
NextAct ==
  \/ \E e \in Thrown, sets \in BOOLEAN : ActCallThrow(e, sets)
  \/ \E k \in Returned, sets \in BOOLEAN : ActCall(k, sets)
  \/ ActSettleOk
  \/ \E e \in Thrown : ActSettleReject(e)
  \/ ActTick
  \/ ActTimerFires

SpecAct == Init /\ [][NextAct]_vars

\* runTestsInVM invocations that overlap
NextOverlapVm ==
  \E i \in Invocations :
    \/ CoRunTestsInVM(i)
    \/ \E n \in BodyNames : CoExecIt(i, n)
    \/ \E g \in Groups, body \in InnerBodies : CoExecDescribe(i, g, body)
    \/ \E e \in OverlapThrown : CoExecThrow(i, e)
    \/ CoExecDone(i)
    \/ \E e \in OverlapThrown : CoInvokeThrow(i, e)
    \/ \E k \in Returned : CoInvokeSync(i, k)
    \/ CoInvokePromise(i)
    \/ CoSettleOk(i)
    \/ \E e \in OverlapThrown : CoSettleReject(i, e)
    \/ CoReturn(i)
    \/ CoCollect(i)

SpecOverlapVm == Init /\ [][NextOverlapVm]_vars

\* runTests() invocations and it() calls that overlap
NextOverlapRuns ==
  \/ \E n \in Names : OvIt(n)
  \/ \E i \in Invocations :
       \/ OvRunTests(i)
       \/ \E e \in OverlapThrown : OvInvokeThrow(i, e)
       \/ \E k \in Returned : OvInvokeAwait(i, k)
       \/ OvSettleOk(i)
       \/ \E e \in OverlapThrown : OvSettleReject(i, e)
       \/ OvReturn(i)
       \/ OvCollect(i)

SpecOverlapRuns == Init /\ [][NextOverlapRuns]_vars

\* the comparators of expect, applied to values of every type
NextExpect ==
  \/ \E actual \in Values, expected \in Values : ExpectToBe(actual, expected)
  \/ \E actual \in Values : ExpectTruthy(actual)
  \/ \E actual \in Numbers \cup {NaN}, expected \in Numbers \cup {NaN} :
       ExpectOrder(actual, expected)

SpecExpect == Init /\ [][NextExpect]_vars

\* calls of validateProblemTests, each awaited
NextValidate ==
  \/ \E solutionExists \in BOOLEAN : ValidateProblemTests(solutionExists)
  \/ \E report \in RunReports : ValSolutionRun(report)
  \/ \E report \in RunReports : ValSrcRun(report)
  \/ ValCollect

SpecValidate == Init /\ [][NextValidate]_vars

(***************************************************************************)
(* Properties                                                              *)
(***************************************************************************)
\* the report of a drain matches the cases cs attempted as calls record
ReportMatches(report, cs, calls) ==
  /\ Len(report.results) = Len(cs)
  /\ Len(calls) = Len(cs)
  /\ \A i \in 1..Len(cs) :
       /\ report.results[i].name = cs[i].name
       /\ calls[i].fn = cs[i].fn
       /\ report.results[i].passed = calls[i].ok
  /\ report.passed = (\A i \in 1..Len(report.results) : report.results[i].passed)

(* C1: a runTests() call (no case registered while it runs) returns a      *)
(* report with one entry per registered case, in registration order, each  *)
(* entry's passed true exactly when the case's body completed without      *)
(* throwing or rejecting, and passed the AND of the entries' passed.       *)
C1_ReportPerCase ==
  Finished(run) =>
    /\ run.pc = "returned"
    /\ ReportMatches(run.report, run.snapshot, run.calls)

(* C2: the report of a runTestsInVM invocation whose source executed lists *)
(* exactly the cases that invocation's own source registered, in order,    *)
(* whatever earlier invocations registered: none when it registered none.  *)
C2_SandboxIsolation ==
  (vm.pc = "returned" /\ vm.executed) =>
    /\ NamesOf(vm.report.results) = vm.own
    /\ (vm.own = <<>> => vm.report.results = <<>>)

\* a second invocation registering nothing, after one that registered cases
C2_Witness ==
  /\ vm.pc = "returned"
  /\ vm.executed
  /\ vm.prevRegistered
  /\ vm.own = <<>>
  /\ vm.report.results = <<>>

(* C3: once a describe call has ended, also by its body throwing, the      *)
(* active group name is empty, so that the next case registered outside a  *)
(* group gets its bare name: on the host, and in a sandbox whose source is *)
(* still executing.  (describe is synchronous: no state is seen while a    *)
(* call is on the stack.)                                                  *)
C3_GroupReset ==
  /\ currentDescribe = ""
  /\ vm.pc = "exec" => vm.sandbox.describe = ""

(* C4: when executing the bundled source raises, whatever it raises and    *)
(* whatever was registered before, the invocation returns passed = false   *)
(* with the single result 'Code execution', failed, its error a string     *)
(* embedding the execution error's message, and no case body was invoked.  *)
C4_ExecutionAbort ==
  (Finished(vm) /\ ~vm.executed) =>
    /\ vm.pc = "returned"
    /\ vm.report.passed = FALSE
    /\ Len(vm.report.results) = 1
    /\ vm.report.results[1].name = "Code execution"
    /\ vm.report.results[1].passed = FALSE
    /\ vm.report.results[1].error.t = "string"
    /\ vm.execError.t = "Error" =>
         vm.report.results[1].error =
           Str("Failed to execute code: " \o vm.execError.v)
    /\ vm.calls = <<>>

\* every case was attempted and every failed body is a failing entry
FailuresContained(r, cs) ==
  /\ r.pc = "returned"
  /\ Len(r.calls) = Len(cs)
  /\ Len(r.report.results) = Len(cs)
  /\ \A i \in 1..Len(cs) : ~r.calls[i].ok => ~r.report.results[i].passed

(* C5: whatever a case body throws or rejects with, runTests() and the     *)
(* sandbox drain end with a report, the case is a failing entry of it, and *)
(* every later case was attempted.                                         *)
C5_FailuresContained ==
  /\ Finished(run) => FailuresContained(run, run.snapshot)
  /\ (Finished(vm) /\ vm.executed) => FailuresContained(vm, vm.sandbox.tests)

(* C6: when a runTests() call has finished, by returning or by raising,    *)
(* the host registry is empty and was cleared exactly once by that run.    *)
C6_RegistryCleared ==
  Finished(run) => (tests = <<>> /\ run.cleared = 1)

(* C7: a runTests() call that follows another one with no registration in  *)
(* between yields {passed: true, results: []}.                             *)
C7_SecondRunEmpty ==
  (Finished(run) /\ run.afterRun) =>
    (run.pc = "returned" /\ run.report = [passed |-> TRUE, results |-> <<>>])

\* every failing entry of a report carries a string as its error
ErrorsExplained(report) ==
  \A i \in 1..Len(report.results) :
    ~report.results[i].passed => report.results[i].error.t = "string"

(* C8: every entry with passed = false of a report of runTests or of       *)
(* runTestsInVM has an error that is a defined string.                     *)
C8_FailureHasMessage ==
  /\ run.pc = "returned" => ErrorsExplained(run.report)
  /\ vm.pc = "returned" => ErrorsExplained(vm.report)

(* C9: when waitFor settles, its callback has been invoked at least once,  *)
(* for every timeout (0 included) and interval.                            *)
C9_AtLeastOneAttempt ==
  wf.pc \in {"resolved", "rejected"} => wf.attempts >= 1

(* C10: when waitFor gives up after a failed attempt it rejects with what  *)
(* the most recent failed attempt threw; it rejects with the generic       *)
(* timeout error only when no attempt ran.                                 *)
C10_LastFailureSurfaced ==
  wf.pc = "rejected" =>
    /\ wf.failures >= 1 => wf.error = wf.lastThrown
    /\ wf.error = WaitForTimeoutError => wf.attempts = 0

\* ceil(a / b) for b > 0
CeilDiv(a, b) == (a + b - 1) \div b

\* the call at hand has timeout > 0 and interval > 0
PositiveOptions == wf.timeout > 0 /\ wf.interval > 0

IsPrefix(s, t) == Len(s) <= Len(t) /\ \A i \in 1..Len(s) : s[i] = t[i]

(* C12: no step of a runTestsInVM invocation changes the host registry or  *)
(* the host group context; the bodies it invokes and the results it        *)
(* records are those of the cases its own source registered; a runTests()  *)
(* call invokes and reports entries of the host registry only.             *)
C12_HostUntouched ==
  /\ [][vm' # vm => (tests' = tests /\ currentDescribe' = currentDescribe)]_vars
  /\ [](/\ IsPrefix(NamesOf(vm.results), vm.own)
        /\ IsPrefix([i \in 1..Len(vm.calls) |-> vm.calls[i].fn],
                    [i \in 1..Len(vm.sandbox.tests) |-> vm.sandbox.tests[i].fn])
        /\ Len(vm.own) = Len(vm.sandbox.tests))
  /\ [](run.pc \in {"loop", "await"} =>
          /\ tests = run.snapshot
          /\ IsPrefix(NamesOf(run.results), NamesOf(tests))
          /\ IsPrefix([i \in 1..Len(run.calls) |-> run.calls[i].fn],
                      [i \in 1..Len(tests) |-> tests[i].fn]))

\* a sandbox run has reported its own case while the host holds another
C12_Witness ==
  /\ vm.pc = "returned"
  /\ vm.executed
  /\ NamesOf(vm.report.results) = <<"a">>
  /\ NamesOf(tests) = <<"G > a">>
  /\ currentDescribe = "G"

(* C13: with sandboxed sources alone setting runner state, a runTestsInVM  *)
(* invocation starts executing its source with the sandbox registry and    *)
(* group context empty and with no component registered.                   *)
C13_NothingPersists ==
  [][(vm.pc = "idle" /\ vm'.pc = "exec") =>
       /\ vm'.sandbox.tests = <<>>
       /\ vm'.sandbox.describe = ""
       /\ registeredApp' = "null"]_vars

\* every recorded verdict is the outcome of the body and of what it returned
Verdicts(r) ==
  /\ Len(r.report.results) = Len(r.calls)
  /\ \A i \in 1..Len(r.calls) : r.report.results[i].passed = r.calls[i].ok

(* C14: a report of the sandbox drain gives each case the verdict that a   *)
(* report of runTests gives it: passed exactly when the body returned and  *)
(* the awaitable it returned, if any, fulfilled; no result is recorded     *)
(* while the awaitable returned by the case's body is unsettled.           *)
C14_DrainEquivalence ==
  /\ run.pc = "returned" => Verdicts(run)
  /\ (vm.pc = "returned" /\ vm.executed) => Verdicts(vm)
  /\ vm.unawaited = 0

\* s has an element equal to x
Contains(s, x) == \E i \in 1..Len(s) : s[i] = x

(* C15: when solution/ exists, validateProblemTests returns valid = true   *)
(* exactly when the solution run reported passed = true and the src run    *)
(* reported passed = false; when the src run reported passed = true the    *)
(* error about src/ passing is among the errors and valid is false; the    *)
(* src run follows the solution run, whatever the solution run reported.   *)
C15_ValidIffSolutionPassesSrcFails ==
  /\ (val.pc = "done" /\ val.solutionExists) =>
       /\ val.valid = (val.solutionResult.passed /\ ~val.srcResult.passed)
       /\ val.srcResult.passed =>
            (Contains(val.errors, SrcPassedError) /\ ~val.valid)
       /\ val.runs = <<"solution", "src">>
  /\ val.pc = "solution" => val.runs = <<"solution">>

\* the solution run failed; the src run was made all the same, and passed
C15_Witness ==
  /\ val.pc = "done"
  /\ val.solutionExists
  /\ ~val.solutionResult.passed
  /\ val.srcResult.passed
  /\ val.runs = <<"solution", "src">>
  /\ ~val.valid

\* the step from r to r2 invokes the body of the next case
Invokes(r, r2) == r.pc = "loop" /\ (r2.idx > r.idx \/ r2.pc = "await")

(* C16: in a run of runTests and in a sandbox drain, a case's body is      *)
(* invoked only when no earlier body of the run is executing or has an     *)
(* unsettled awaitable outstanding.                                        *)
C16_OneBodyInFlight ==
  /\ [][Invokes(run, run') => run.awaiting = "none"]_vars
  /\ [][Invokes(vm, vm') => (vm.awaiting = "none" /\ vm.unawaited = 0)]_vars

\* what drain r has invoked and recorded lies within the cases cs
Within(r, cs) ==
  /\ Len(r.calls) <= Len(cs)
  /\ IsPrefix(NamesOf(r.results), NamesOf(cs))
  /\ r.pc = "returned" => Len(r.report.results) = Len(cs)

(* C17: the cases a drain invokes and reports are those that the registry  *)
(* held when the drain began, also when a body registers a case during     *)
(* the drain: such a case is neither invoked nor reported in that run.     *)
C17_RegistryFixedAtDrainStart ==
  /\ run.pc # "idle" => Within(run, run.snapshot)
  /\ vm.executed => Within(vm, vm.snapshot)

\* the name the single group slot gives to a case called n
SlotName(slot, n) == IF slot # "" THEN slot \o " > " \o n ELSE n

RECURSIVE OuterNames(_, _, _)
(* names of the cases that the body of describe(g, ...) registers, up to   *)
(* its first throw: those of a nested describe carry the inner name only,  *)
(* those registered after a nested describe has returned carry no prefix.  *)
OuterNames(g, body, innerReturned) ==
  IF body = <<>> \/ Head(body).op = "throw" THEN <<>>
  ELSE LET s == Head(body)
       IN (IF s.op = "it"
           THEN <<IF innerReturned THEN s.name ELSE g \o " > " \o s.name>>
           ELSE [i \in 1..Len(s.body) |-> s.name \o " > " \o s.body[i].name])
          \o OuterNames(g, Tail(body), innerReturned \/ s.op = "describe")

\* it and describe, called on registry ts with group slot d, name as claimed
NamedFromSlot(ts, d, sandboxed) ==
  /\ \A n \in Names :
       LET st == ItPush(RegState(ts, d, FALSE), n, sandboxed)
       IN NamesOf(st.tests) = Append(NamesOf(ts), SlotName(d, n))
  /\ \A g \in Groups, body \in Bodies :
       LET st == DescribeCall(RegState(ts, d, FALSE), g, body, sandboxed)
       IN NamesOf(st.tests) = NamesOf(ts) \o OuterNames(g, body, FALSE)

(* C18: whatever the registry and the group slot hold, on the host and in  *)
(* a sandbox whose source is executing, it(n) registers the name 'G > n'   *)
(* when the slot holds a non-empty G and 'n' otherwise, and a describe     *)
(* call registers its body's cases accordingly: with the inner name only   *)
(* inside a nested describe, bare once a nested describe has returned.     *)
C18_SingleGroupSlot ==
  /\ NamedFromSlot(tests, currentDescribe, FALSE)
  /\ vm.pc = "exec" =>
       NamedFromSlot(vm.sandbox.tests, vm.sandbox.describe, TRUE)

\* an outer group's case registered after the nested describe: no prefix
C18_Witness ==
  /\ NamesOf(tests) = <<"H > a", "a">>
  /\ currentDescribe = ""
  /\ vm.pc = "exec"
  /\ NamesOf(vm.sandbox.tests) = <<>>

(* C19: waitFor has resolved only if an attempt succeeded: the callback    *)
(* returned and the awaitable it returned, if any, fulfilled; once an      *)
(* attempt has succeeded the callback is not invoked again and the call    *)
(* does not sleep.                                                         *)
C19_ResolvesOnlyOnSuccess ==
  /\ [](wf.pc = "resolved" => wf.successes >= 1)
  /\ [][wf.successes >= 1 =>
          (wf'.attempts = wf.attempts /\ wf'.pc # "sleep")]_vars

\* the elements of s that are not x, in order
RECURSIVE Remove(_, _)
Remove(s, x) ==
  IF s = <<>> THEN <<>>
  ELSE (IF Head(s) = x THEN <<>> ELSE <<Head(s)>>) \o Remove(Tail(s), x)

(* C20: when act has resolved, the callback was invoked once, what it      *)
(* returned (if an awaitable) settled first, then three zero-delay timers  *)
(* of act fired, then its 10-unit timer, no sooner than 10 units after it  *)
(* was set; a zero-delay timer that the callback set has fired.            *)
C20_ActSettles ==
  ac.pc = "resolved" =>
    /\ ac.calls = 1
    /\ Remove(ac.log, "cb") =
         <<"call">>
           \o (IF ac.awaitable = "none" THEN <<>> ELSE <<"settle">>)
           \o <<"zero", "zero", "zero", "delay">>
    /\ ac.time >= ActDelay
    /\ ac.timers = <<>>

(* C21: toBe and not.toBe never both throw and never both pass, for values *)
(* of every type; the same of toBeTruthy and toBeFalsy; on integers        *)
(* toBeGreaterThan(n) throws exactly when a <= n, toBeLessThan(n) exactly  *)
(* when a >= n, and both exactly when a = n.                               *)
C21_ComparatorComplements ==
  /\ ex.op \in {"toBe", "toBeTruthy"} => ex.threw[1] # ex.threw[2]
  /\ (ex.op = "toBeGreaterThan" /\ ex.actual.t = "number"
                                /\ ex.expected.t = "number") =>
       /\ ex.threw[1] = (ex.actual.n <= ex.expected.n)
       /\ ex.threw[2] = (ex.actual.n >= ex.expected.n)
       /\ (ex.threw[1] /\ ex.threw[2]) = (ex.actual.n = ex.expected.n)

\* equal integers: toBeGreaterThan and toBeLessThan have both thrown
C21_Witness ==
  /\ ex.op = "toBeGreaterThan"
  /\ ex.actual = Number(1)
  /\ ex.expected = Number(1)
  /\ ex.threw = <<TRUE, TRUE>>

(* C22: in every result of validateProblemTests, on every return path,     *)
(* valid is true exactly when the errors list is empty.                    *)
C22_ValidIffNoErrors ==
  val.pc = "done" => (val.valid = (val.errors = <<>>))

(* C22, amended: when solution/ exists, valid is true exactly when the     *)
(* errors list is empty; when solution/ is missing, valid is true and the  *)
(* errors list holds the single note that validation was skipped.          *)
C22_ValidIffNoErrorsUnlessSkipped ==
  val.pc = "done" =>
    /\ val.solutionExists => (val.valid = (val.errors = <<>>))
    /\ ~val.solutionExists => (val.valid /\ val.errors = <<NoSolutionNote>>)

\* both runs failed: errors were collected and valid is false
C22_Witness ==
  /\ val.pc = "done"
  /\ val.solutionExists
  /\ ~val.solutionResult.passed
  /\ ~val.srcResult.passed
  /\ Len(val.errors) >= 3
  /\ ~val.valid

(* C23: when runTestsInVM invocations overlap, each one's drain records    *)
(* results for the cases its own source registered, in the order it        *)
(* registered them, and its report lists exactly those.                    *)
C23_OverlapIsolation ==
  \A i \in Invocations :
    /\ IsPrefix(NamesOf(vms[i].results), vms[i].own)
    /\ (vms[i].pc = "returned" /\ vms[i].executed) =>
         NamesOf(vms[i].report.results) = vms[i].own

(* the second invocation started while the first was suspended, and has    *)
(* returned the report of its own cases while the first is suspended again *)
C23_Witness ==
  /\ vms[1].pc = "await"
  /\ vms[1].own = <<"a", "G > a">>
  /\ vms[1].idx = 1
  /\ vms[2].overlap
  /\ vms[2].pc = "returned"
  /\ vms[2].executed
  /\ vms[2].own = <<"G > a", "a">>
  /\ NamesOf(vms[2].report.results) = <<"G > a", "a">>

(* C24: whatever the interleaving of it() calls and runTests() invocations *)
(* on the one thread, no entry of the host registry is discarded that no   *)
(* run has invoked.                                                        *)
C24_NoCaseLost == runs.lost = 0

====
